---- MODULE Spec2Model ----
(***************************************************************************)
(* Alcovia intervention engine: the Express handlers of src/server/server.js *)
(* over the three Supabase tables declared in src/client/app.js.             *)
(*                                                                           *)
(* Every handler is an async function: it runs without interruption between  *)
(* two awaits, and each awaited store call (or the awaited webhook POST) is   *)
(* one atomic step of the store.  Several requests may be in flight at once,  *)
(* one per handler slot of Procs, and their steps interleave freely.          *)
(***************************************************************************)
EXTENDS Integers, Sequences, FiniteSets, Bags, TLC

VARIABLES
    students,         \* table students: student_id -> row
    daily_logs,       \* table daily_logs, in insertion order
    interventions,    \* table interventions, in insertion order; the id is the index
    N8N_WEBHOOK_URL,  \* TRUE iff process.env.N8N_WEBHOOK_URL is set
    now,              \* the server's clock, read by new Date()
    client,           \* the App component of src/client/app.js: its state and timers
    h                 \* handler slot -> the request it is serving and its position

vars == <<students, daily_logs, interventions, N8N_WEBHOOK_URL, now, client, h>>
store == <<students, daily_logs, interventions>>

\* ---------------------------------------------------------------- bounds
\* Check-in requests accepted in one behaviour.
MaxCheckins == 2

\* Ticks of the server's clock in one behaviour.
MaxClock == 2

\* Status requests of the client in flight at once.
MaxInFlight == 2

\* ------------------------------------------------------------ value sets
Null == "null"

\* Handler slots: the requests that may be in flight at once.  A request
\* takes the first free slot, so the slots' names carry no meaning.
Procs == {"r1", "r2"}

\* The roster (the sample rows of the schema), and an id that is on no roster.
Roster == {"S001", "S002"}
StudentName(student_id) == IF student_id = "S001" THEN "Alice Johnson" ELSE "Bob Smith"
UnknownStudent == "S999"
StudentIds == Roster \cup {UnknownStudent}

Tasks == {"Complete chapter 3 exercises", "Revise chapter 2"}

\* <<quiz_score, focus_minutes>> submitted by the requests of Spec.
Metrics == {<<0, 0>>, <<8, 61>>}
\* The wider grid of SpecGate, around both thresholds and out of range.
GateQuizScores == {-1, 0, 5, 6, 7, 8, 9, 10, 11}
GateFocusMinutes == {-1, 0, 30, 59, 60, 61, 62, 100}

\* A request body is a JSON object: a function from the keys it carries.
\* A key the body lacks destructures to undefined.
Has(body, key) == key \in DOMAIN body
Drop(body, key) == [k \in DOMAIN body \ {key} |-> body[k]]

\* !x of JavaScript for a string-valued field: undefined or the empty string.
Falsy(body, key) == IF Has(body, key) THEN body[key] = "" ELSE TRUE

FullCheckinBodies(ids, ms) ==
    { [student_id |-> s, quiz_score |-> m[1], focus_minutes |-> m[2]] :
        s \in ids, m \in ms }
\* The malformed bodies: one well-formed body with a key removed or emptied.
CheckinBodies ==
    LET full == FullCheckinBodies(StudentIds, Metrics)
        one == CHOOSE b \in full : b.student_id \in Roster /\ b.quiz_score = 0
    IN  full
        \cup { Drop(one, k) : k \in {"student_id", "quiz_score", "focus_minutes"} }
        \cup { [one EXCEPT !.student_id = ""] }

\* Intervention ids a caller may name; an id names no row until that row is inserted.
InterventionIds == 1..MaxCheckins

\* Well-formed assign bodies, with and without the optional intervention_id.
\* The students updates of assign and complete filter on student_id alone and
\* match no row for an id off the roster, so these requests name roster ids.
FullAssignBodies(tasks) ==
    LET all == { [student_id |-> s, task |-> t, intervention_id |-> i] :
                    s \in Roster, t \in tasks, i \in InterventionIds }
    IN  all \cup { Drop(b, "intervention_id") : b \in all }
AssignBodies ==
    LET full == FullAssignBodies(Tasks)
        one == CHOOSE b \in full : Has(b, "intervention_id")
    IN  full
        \cup { Drop(one, k) : k \in {"student_id", "task"} }
        \cup { [one EXCEPT !.task = ""], [one EXCEPT !.student_id = ""] }

FullCompleteBodies == { [student_id |-> s] : s \in Roster }
CompleteBodies == FullCompleteBodies \cup { << >>, [student_id |-> ""] }

\* ------------------------------------------------------------- responses
NoRes == [code |-> 0, success |-> FALSE, status |-> Null]
Res400 == [code |-> 400, success |-> FALSE, status |-> Null]
Res500 == [code |-> 500, success |-> FALSE, status |-> Null]
ResOk(status) == [code |-> 200, success |-> TRUE, status |-> status]

\* ---------------------------------------------------------- handler slot
\* route, body: the request.  pc: the await the handler is at.
\* isSuccess, student, intervention: the handler's local constants.
\* dispatch: which of the three console lines of the webhook block ran.
\* res: the response sent.
\* before: history only, the students row the handler's students update
\* found (NoRow until then, and when it matched no row).
\* store_error: history only, a store call of this request returned an error.
\* repeat: history only, the request repeats the one answered just before it.
\* data: the students row a status request read (NoRow until then).
\* raced, start: history only, the request arrived together with another one,
\*               and the students and interventions tables as they were then.
NoRow == [name |-> Null, status |-> Null, current_task |-> Null, updated_at |-> 0]

Idle ==
    [route |-> "idle", body |-> << >>, pc |-> "idle", isSuccess |-> FALSE,
     student |-> Null, intervention |-> 0, dispatch |-> Null, res |-> NoRes,
     before |-> NoRow, store_error |-> FALSE, repeat |-> FALSE, data |-> NoRow,
     raced |-> FALSE, start |-> [students |-> << >>, interventions |-> << >>]]

Free(p) == h[p].pc = "idle" /\ (p = "r2" => h["r1"].pc # "idle")

Reply(slot, res) == [slot EXCEPT !.pc = "done", !.res = res]

\* --------------------------------------------------------------- client
\* studentData before any response, and after the back button: null.
NoData == [student_id |-> Null, status |-> Null]

\* pollingRef.current before any setInterval.
NoInterval == [student |-> Null, live |-> FALSE]

\* useState(null), useState(null), useRef(null); no interval, no request.
\*   pollingRef: the interval pollingRef.current holds, with the student its
\*               callback's closure names, and whether it is still set
\*   leaked:     an interval was overwritten in pollingRef.current while set
\*   fetches:    the status requests in flight (status Null until the server
\*               has read the row), a bag
ClientInit ==
    [selectedStudent |-> Null, studentData |-> NoData, pollingRef |-> NoInterval,
     leaked |-> FALSE, fetches |-> EmptyBag]

\* --------------------------------------------------------------- tables
StudentRow(student_id) ==
    [name |-> StudentName(student_id), status |-> "Normal", current_task |-> Null,
     updated_at |-> 0]

Init ==
    /\ students = [s \in Roster |-> StudentRow(s)]
    /\ daily_logs = << >>
    /\ interventions = << >>
    /\ N8N_WEBHOOK_URL \in BOOLEAN
    /\ now = 0
    /\ client = ClientInit
    /\ h = [p \in Procs |-> Idle]

\* ============================================================ daily-checkin
\* Variant: the metrics tested with ! like student_id, so that 0 counts as missing.
FalsyNumber(body, key) == IF Has(body, key) THEN body[key] = 0 ELSE TRUE
CheckinInvalidFalsyMetrics(body) ==
    \/ Falsy(body, "student_id")
    \/ FalsyNumber(body, "quiz_score")
    \/ FalsyNumber(body, "focus_minutes")

\* if (!student_id || quiz_score === undefined || focus_minutes === undefined)
CheckinInvalid(body) ==
    \/ Falsy(body, "student_id")
    \/ ~Has(body, "quiz_score")
    \/ ~Has(body, "focus_minutes")

\* Variant: the quiz threshold inclusive.
isSuccessInclusive(quiz_score, focus_minutes) == quiz_score >= 7 /\ focus_minutes > 60

\* THE LOGIC GATE
isSuccess(quiz_score, focus_minutes) == quiz_score > 7 /\ focus_minutes > 60

\* Variant: the two labels the other way round.
GateStatusSwapped(ok) == IF ok THEN "Needs Intervention" ELSE "On Track"

GateStatus(ok) == IF ok THEN "On Track" ELSE "Needs Intervention"

\* Check-ins accepted so far: logged, or validated and about to be logged.
CheckinsAccepted ==
    Len(daily_logs) + Cardinality({p \in Procs : h[p].pc = "insert_log"})

CheckinReceive(p, body) ==
    /\ Free(p)
    /\ ~CheckinInvalid(body) => CheckinsAccepted < MaxCheckins
    /\ LET slot == [Idle EXCEPT !.route = "checkin", !.body = body] IN
       h' = [h EXCEPT ![p] =
               IF CheckinInvalid(body)
               THEN Reply(slot, Res400)
               ELSE [slot EXCEPT !.pc = "insert_log",
                                 !.isSuccess = isSuccess(body.quiz_score,
                                                         body.focus_minutes)]]
    /\ UNCHANGED <<students, daily_logs, interventions, N8N_WEBHOOK_URL, now, client>>

LogRow(body, ok) ==
    [student_id |-> body.student_id, quiz_score |-> body.quiz_score,
     focus_minutes |-> body.focus_minutes, status |-> GateStatus(ok)]

\* insert into daily_logs; student_id REFERENCES students(student_id), so the
\* insert of a row for an unknown student fails and logError is thrown.
CheckinInsertLog(p) ==
    /\ h[p].route = "checkin" /\ h[p].pc = "insert_log"
    /\ IF h[p].body.student_id \in DOMAIN students
       THEN /\ daily_logs' = Append(daily_logs, LogRow(h[p].body, h[p].isSuccess))
            /\ h' = [h EXCEPT ![p].pc =
                       IF h[p].isSuccess THEN "update_normal" ELSE "update_needs"]
       ELSE /\ h' = [h EXCEPT ![p] = Reply(h[p], Res500)]
            /\ UNCHANGED daily_logs
    /\ UNCHANGED <<students, interventions, N8N_WEBHOOK_URL, now, client>>

\* Variant: the success path leaves current_task as it is.
SuccessUpdateKeepsTask(row) == [row EXCEPT !.status = "Normal", !.updated_at = now]

\* .update({ status: 'Normal', current_task: null, updated_at })
SuccessUpdate(row) ==
    [row EXCEPT !.status = "Normal", !.current_task = Null, !.updated_at = now]

\* Variant: the failure path only touches updated_at.
FailureUpdateNoStatus(row) == [row EXCEPT !.updated_at = now]

\* .update({ status: 'Needs Intervention', updated_at })
FailureUpdate(row) == [row EXCEPT !.status = "Needs Intervention", !.updated_at = now]

\* .eq('student_id', student_id) of the students updates.
StudentMatches(s, body) == s = body.student_id

Before(student_id) ==
    IF student_id \in DOMAIN students THEN students[student_id] ELSE NoRow

CheckinSuccessPath(p) ==
    /\ h[p].route = "checkin" /\ h[p].pc = "update_normal"
    /\ students' =
         [s \in DOMAIN students |->
            IF StudentMatches(s, h[p].body) THEN SuccessUpdate(students[s]) ELSE students[s]]
    /\ h' = [h EXCEPT ![p] =
               [Reply(h[p], ResOk("On Track")) EXCEPT
                   !.before = Before(h[p].body.student_id)]]
    /\ UNCHANGED <<daily_logs, interventions, N8N_WEBHOOK_URL, now, client>>

CheckinFailureUpdate(p) ==
    /\ h[p].route = "checkin" /\ h[p].pc = "update_needs"
    /\ students' =
         [s \in DOMAIN students |->
            IF StudentMatches(s, h[p].body) THEN FailureUpdate(students[s]) ELSE students[s]]
    /\ h' = [h EXCEPT ![p].pc = "select_student",
                      ![p].before = Before(h[p].body.student_id)]
    /\ UNCHANGED <<daily_logs, interventions, N8N_WEBHOOK_URL, now, client>>

\* const { data: student } = ... .single(); only student.name is read later.
CheckinSelectStudent(p) ==
    /\ h[p].route = "checkin" /\ h[p].pc = "select_student"
    /\ h' = [h EXCEPT ![p].pc = "insert_intervention",
                      ![p].student =
                          IF h[p].body.student_id \in DOMAIN students
                          THEN students[h[p].body.student_id].name ELSE Null]
    /\ UNCHANGED <<students, daily_logs, interventions, N8N_WEBHOOK_URL, now, client>>

\* .insert({ student_id, reason, status: 'Pending' }); the other columns default.
\* Variant: the Intervention is created already Assigned.
NewInterventionAssigned(student_id, quiz_score, focus_minutes) ==
    [student_id |-> student_id, reason |-> <<quiz_score, focus_minutes>>,
     assigned_task |-> Null, assigned_by |-> Null, assigned_at |-> Null,
     completed_at |-> Null, status |-> "Assigned"]

NewIntervention(student_id, quiz_score, focus_minutes) ==
    [student_id |-> student_id, reason |-> <<quiz_score, focus_minutes>>,
     assigned_task |-> Null, assigned_by |-> Null, assigned_at |-> Null,
     completed_at |-> Null, status |-> "Pending"]

\* The response once the webhook block is over.
PendingReview == ResOk("Pending Mentor Review")

CheckinInsertIntervention(p) ==
    /\ h[p].route = "checkin" /\ h[p].pc = "insert_intervention"
    /\ interventions' =
         Append(interventions,
                NewIntervention(h[p].body.student_id, h[p].body.quiz_score,
                                h[p].body.focus_minutes))
    /\ h' = [h EXCEPT ![p] =
               IF N8N_WEBHOOK_URL
               THEN [h[p] EXCEPT !.pc = "webhook",
                                 !.intervention = Len(interventions) + 1]
               ELSE [Reply(h[p], PendingReview) EXCEPT
                        !.intervention = Len(interventions) + 1,
                        !.dispatch = "skipped"]]
    /\ UNCHANGED <<students, daily_logs, N8N_WEBHOOK_URL, now, client>>

\* Variant: no inner try/catch, a failed POST reaches the handler's outer catch.
AfterWebhookUncaught(delivered) ==
    [res |-> IF delivered THEN PendingReview ELSE Res500,
     dispatch |-> IF delivered THEN "ok" ELSE "failed"]

\* try { await axios.post(...) } catch (webhookError) { console.error(...) }
AfterWebhook(delivered) ==
    [res |-> PendingReview, dispatch |-> IF delivered THEN "ok" ELSE "failed"]

CheckinWebhook(p, delivered) ==
    /\ h[p].route = "checkin" /\ h[p].pc = "webhook"
    /\ h' = [h EXCEPT ![p] =
               [Reply(h[p], AfterWebhook(delivered).res) EXCEPT
                   !.dispatch = AfterWebhook(delivered).dispatch]]
    /\ UNCHANGED <<students, daily_logs, interventions, N8N_WEBHOOK_URL, now, client>>

\* ======================================================== assign-intervention
\* if (!student_id || !task)
AssignInvalid(body) == Falsy(body, "student_id") \/ Falsy(body, "task")

AssignReceive(p, body) ==
    /\ Free(p)
    /\ LET slot == [Idle EXCEPT !.route = "assign", !.body = body] IN
       h' = [h EXCEPT ![p] =
               IF AssignInvalid(body) THEN Reply(slot, Res400)
               ELSE IF Has(body, "intervention_id")
                    THEN [slot EXCEPT !.pc = "update_intervention"]
                    ELSE [slot EXCEPT !.pc = "update_remedial"]]
    /\ UNCHANGED <<students, daily_logs, interventions, N8N_WEBHOOK_URL, now, client>>

\* .update({ assigned_task, assigned_by: 'Mentor', assigned_at, status: 'Assigned' })
AssignedUpdate(row, task) ==
    [row EXCEPT !.assigned_task = task, !.assigned_by = "Mentor",
                !.assigned_at = "set", !.status = "Assigned"]

\* .eq('id', intervention_id): the row with that id, whoever it belongs to.
AssignMatches(i, body) == i = body.intervention_id

AssignUpdateIntervention(p) ==
    /\ h[p].route = "assign" /\ h[p].pc = "update_intervention"
    /\ interventions' =
         [i \in DOMAIN interventions |->
            IF AssignMatches(i, h[p].body)
            THEN AssignedUpdate(interventions[i], h[p].body.task)
            ELSE interventions[i]]
    /\ h' = [h EXCEPT ![p].pc = "update_remedial"]
    /\ UNCHANGED <<students, daily_logs, N8N_WEBHOOK_URL, now, client>>

\* Variant: assign writes the task but resets the status.
RemedialUpdateNormal(row, task) ==
    [row EXCEPT !.status = "Normal", !.current_task = task, !.updated_at = now]

\* Variant: assign sets the status but not the task.
RemedialUpdateNoTask(row, task) ==
    [row EXCEPT !.status = "Remedial", !.updated_at = now]

\* .update({ status: 'Remedial', current_task: task, updated_at })
RemedialUpdate(row, task) ==
    [row EXCEPT !.status = "Remedial", !.current_task = task, !.updated_at = now]

AssignUpdateStudent(p) ==
    /\ h[p].route = "assign" /\ h[p].pc = "update_remedial"
    /\ students' =
         [s \in DOMAIN students |->
            IF StudentMatches(s, h[p].body) THEN RemedialUpdate(students[s], h[p].body.task) ELSE students[s]]
    /\ h' = [h EXCEPT ![p] =
               [Reply(h[p], ResOk("Intervention assigned successfully")) EXCEPT
                   !.before = Before(h[p].body.student_id)]]
    /\ UNCHANGED <<daily_logs, interventions, N8N_WEBHOOK_URL, now, client>>

\* ============================================================== complete-task
\* if (!student_id)
CompleteInvalid(body) == Falsy(body, "student_id")

CompleteReceive(p, body) ==
    /\ Free(p)
    /\ LET slot == [Idle EXCEPT !.route = "complete", !.body = body] IN
       h' = [h EXCEPT ![p] =
               IF CompleteInvalid(body) THEN Reply(slot, Res400)
               ELSE [slot EXCEPT !.pc = "complete_interventions"]]
    /\ UNCHANGED <<students, daily_logs, interventions, N8N_WEBHOOK_URL, now, client>>

\* Variant: complete-task stamps the Intervention and leaves its status.
CompletedUpdateStampOnly(row) == [row EXCEPT !.completed_at = "set"]

\* .update({ completed_at, status: 'Completed' })
CompletedUpdate(row) == [row EXCEPT !.completed_at = "set", !.status = "Completed"]

\* Variant: complete-task closes every open Intervention of the student.
CompleteMatchesAnyOpen(row, student_id) ==
    row.student_id = student_id /\ row.status # "Completed"

\* .eq('student_id', student_id).eq('status', 'Assigned')
CompleteMatches(row, student_id) ==
    row.student_id = student_id /\ row.status = "Assigned"

CompleteUpdateInterventions(p) ==
    /\ h[p].route = "complete" /\ h[p].pc = "complete_interventions"
    /\ interventions' =
         [i \in DOMAIN interventions |->
            IF CompleteMatches(interventions[i], h[p].body.student_id)
            THEN CompletedUpdate(interventions[i]) ELSE interventions[i]]
    /\ h' = [h EXCEPT ![p].pc = "complete_student"]
    /\ UNCHANGED <<students, daily_logs, N8N_WEBHOOK_URL, now, client>>

\* .update({ status: 'Normal', current_task: null, updated_at })
ReturnToNormal(row) ==
    [row EXCEPT !.status = "Normal", !.current_task = Null, !.updated_at = now]

CompleteUpdateStudent(p) ==
    /\ h[p].route = "complete" /\ h[p].pc = "complete_student"
    /\ students' =
         [s \in DOMAIN students |->
            IF StudentMatches(s, h[p].body) THEN ReturnToNormal(students[s]) ELSE students[s]]
    /\ h' = [h EXCEPT ![p] =
               [Reply(h[p], ResOk("Task completed")) EXCEPT
                   !.before = Before(h[p].body.student_id)]]
    /\ UNCHANGED <<daily_logs, interventions, N8N_WEBHOOK_URL, now, client>>

\* ================================================================= response
\* The response has been sent; the slot serves the next request.
Finish(p) ==
    /\ h[p].pc = "done"
    /\ h' = [h EXCEPT ![p] = Idle]
    /\ UNCHANGED <<students, daily_logs, interventions, N8N_WEBHOOK_URL, now, client>>

\* One step of the server on behalf of the request in slot p, the requests
\* drawn from the given bodies.
Serve(p, checkins, assigns, completes) ==
    \/ \E body \in checkins : CheckinReceive(p, body)
    \/ CheckinInsertLog(p)
    \/ CheckinSuccessPath(p)
    \/ CheckinFailureUpdate(p)
    \/ CheckinSelectStudent(p)
    \/ CheckinInsertIntervention(p)
    \/ \E delivered \in BOOLEAN : CheckinWebhook(p, delivered)
    \/ \E body \in assigns : AssignReceive(p, body)
    \/ AssignUpdateIntervention(p)
    \/ AssignUpdateStudent(p)
    \/ \E body \in completes : CompleteReceive(p, body)
    \/ CompleteUpdateInterventions(p)
    \/ CompleteUpdateStudent(p)
    \/ Finish(p)

\* Requests arrive one after the other: each is answered before the next.
Next == Serve("r1", CheckinBodies, AssignBodies, CompleteBodies)

Spec == Init /\ [][Next]_vars

\* Requests overlap: the handlers' store calls interleave.  The requests are
\* the well-formed ones about roster students, with one task text.
NextConcurrent ==
    \E p \in Procs :
        Serve(p, FullCheckinBodies(Roster, Metrics),
              FullAssignBodies({"Complete chapter 3 exercises"}), FullCompleteBodies)

SpecConcurrent == Init /\ [][NextConcurrent]_vars

\* The decision gate alone: one check-in of a roster student at every point
\* of the grid.
GateBodies ==
    { [student_id |-> "S001", quiz_score |-> q, focus_minutes |-> f] :
        q \in GateQuizScores, f \in GateFocusMinutes }

NextGate ==
    \/ \E body \in GateBodies : daily_logs = << >> /\ CheckinReceive("r1", body)
    \/ CheckinInsertLog("r1")
    \/ CheckinSuccessPath("r1")
    \/ CheckinFailureUpdate("r1")
    \/ CheckinSelectStudent("r1")
    \/ CheckinInsertIntervention("r1")
    \/ \E delivered \in BOOLEAN : CheckinWebhook("r1", delivered)
    \/ Finish("r1")

SpecGate == Init /\ [][NextGate]_vars

\* ==================================================================== claims
Rows == DOMAIN interventions
Quiet == \A p \in Procs : h[p].pc \in {"idle", "done"}
Answered == Quiet /\ \E p \in Procs : h[p].pc = "done"

\* The request slot p is serving in this step, also when the step receives it.
ActingRoute(p) == IF h[p].pc = "idle" THEN h'[p].route ELSE h[p].route
ActingBody(p) == IF h[p].pc = "idle" THEN h'[p].body ELSE h[p].body
Acts(p) == h'[p] # h[p]

OpenOf(s) ==
    { i \in Rows : interventions[i].student_id = s
                   /\ interventions[i].status \in {"Pending", "Assigned"} }

\* C1: in every reachable state each student has at most one Intervention
\* whose status is Pending or Assigned, also under overlapping check-ins.
C1_AtMostOneOpen == \A s \in Roster : Cardinality(OpenOf(s)) <= 1

\* C2: after every completed operation, a student's current_task is non-empty
\* if and only if the student's status is Remedial.
C2_TaskIffRemedial ==
    Answered =>
        \A s \in Roster :
            (students[s].current_task # Null) <=> (students[s].status = "Remedial")

\* C3: a check-in is classified Pass exactly when quiz_score > 7 and
\* focus_minutes > 60, for in-range and out-of-range integers alike; (8,60) and
\* (7,100) are Fail, (8,61) and (10,61) are Pass.  Stated on what the handler
\* logs and answers.
Passes(q, f) == q >= 8 /\ f >= 61
C3_Cases ==
    {<<8, 60, FALSE>>, <<7, 100, FALSE>>, <<8, 61, TRUE>>, <<10, 61, TRUE>>}
C3_Gate ==
    /\ \A i \in DOMAIN daily_logs :
        LET row == daily_logs[i] IN
        /\ row.status = (IF Passes(row.quiz_score, row.focus_minutes)
                         THEN "On Track" ELSE "Needs Intervention")
        /\ \A c \in C3_Cases :
            (row.quiz_score = c[1] /\ row.focus_minutes = c[2])
                => ((row.status = "On Track") <=> c[3])
    /\ \A p \in Procs :
        (h[p].route = "checkin" /\ h[p].pc = "done" /\ h[p].res.code = 200) =>
            LET pass == Passes(h[p].body.quiz_score, h[p].body.focus_minutes) IN
            h[p].res.status = (IF pass THEN "On Track" ELSE "Pending Mentor Review")

C3_Witness ==
    /\ h["r1"].pc = "done" /\ h["r1"].res.status = "On Track"
    /\ h["r1"].body.quiz_score = 8 /\ h["r1"].body.focus_minutes = 61
    /\ Len(daily_logs) = 1 /\ daily_logs[1].status = "On Track"

\* C4 as stated: the status never goes from NeedsIntervention to Normal in one
\* step.
C4_NeverDirect ==
    [][\A s \in Roster :
          ~(students[s].status = "Needs Intervention"
            /\ students'[s].status = "Normal")]_vars

\* C4 as amended: the status goes from NeedsIntervention to Normal in one step
\* exactly by the students update of a Pass check-in or of completeTask for
\* that student, and by no other step.
C4_DirectOnlyByPassOrComplete ==
    [][\A s \in Roster :
          (students[s].status = "Needs Intervention"
           /\ students'[s].status = "Normal")
          => \E p \in Procs :
                /\ Has(h[p].body, "student_id") /\ h[p].body.student_id = s
                /\ h'[p].pc = "done" /\ h'[p].res.code = 200
                /\ \/ h[p].route = "checkin" /\ h[p].isSuccess
                      /\ h[p].pc = "update_normal"
                   \/ h[p].route = "complete" /\ h[p].pc = "complete_student"]_vars

C4_Witness ==
    \E p \in Procs :
        /\ h[p].pc = "done" /\ h[p].route \in {"checkin", "complete"}
        /\ h[p].before.status = "Needs Intervention"
        /\ students[h[p].body.student_id].status = "Normal"

\* C5: an Intervention's status only moves forward along Pending, Assigned,
\* Completed; a Completed one never changes again; none is ever deleted.
Rank(status) == IF status = "Pending" THEN 1 ELSE IF status = "Assigned" THEN 2 ELSE 3
C5_ForwardOnly ==
    [][\A i \in Rows :
          /\ i \in DOMAIN interventions'
          /\ Rank(interventions[i].status) <= Rank(interventions'[i].status)]_vars

\* C6: an operation invoked with student_id A leaves the students row and all
\* Interventions of every other student B unchanged.
C6_Independent ==
    [][\A p \in Procs, B \in Roster :
          (Acts(p) /\ Has(ActingBody(p), "student_id")
                   /\ ActingBody(p).student_id # B)
          => /\ students'[B] = students[B]
             /\ \A i \in Rows :
                  interventions[i].student_id = B
                      => interventions'[i] = interventions[i]]_vars

\* C7: a request lacking a required field is answered with a validation error
\* and no step taken for it changes the store; a quiz_score or focus_minutes
\* of 0 is present and is not rejected.
Required(route) ==
    IF route = "checkin" THEN {"student_id", "quiz_score", "focus_minutes"}
    ELSE IF route = "assign" THEN {"student_id", "task"}
    ELSE IF route = "complete" THEN {"student_id"}
    ELSE {}
Lacks(route, body) == \E k \in Required(route) : ~Has(body, k)
C7_Rejected ==
    \A p \in Procs :
        /\ Lacks(h[p].route, h[p].body) => (h[p].pc = "done" /\ h[p].res = Res400)
        /\ ( /\ h[p].route = "checkin" /\ ~Lacks("checkin", h[p].body)
             /\ h[p].body.student_id # ""
             /\ (h[p].body.quiz_score = 0 \/ h[p].body.focus_minutes = 0) )
           => h[p].res.code # 400
C7_MissingFieldRejected ==
    /\ []C7_Rejected
    /\ [][\A p \in Procs :
            (Acts(p) /\ Lacks(ActingRoute(p), ActingBody(p)))
                => UNCHANGED store]_vars

C7_Witness ==
    /\ h["r1"].route = "checkin" /\ ~Has(h["r1"].body, "focus_minutes")
    /\ h["r1"].res = Res400
    /\ Len(daily_logs) >= 1 /\ Len(interventions) >= 1

\* C8: a check-in classified Fail sets the student's status to
\* NeedsIntervention, adds exactly one new Pending Intervention for that
\* student, leaves every existing Intervention unchanged and answers
\* "Pending Mentor Review".
FailCheckin(slot) ==
    /\ slot.route = "checkin" /\ ~CheckinInvalid(slot.body)
    /\ slot.body.student_id \in Roster
    /\ ~Passes(slot.body.quiz_score, slot.body.focus_minutes)
C8_Answered ==
    \A p \in Procs :
        (FailCheckin(h[p]) /\ h[p].pc = "done") =>
            LET sid == h[p].body.student_id IN
            /\ h[p].res = ResOk("Pending Mentor Review")
            /\ students[sid].status = "Needs Intervention"
            /\ h[p].intervention = Len(interventions)
            /\ interventions[h[p].intervention].student_id = sid
            /\ interventions[h[p].intervention].status = "Pending"
C8_FailCheckin ==
    /\ []C8_Answered
    /\ [][\A p \in Procs :
            (Acts(p) /\ FailCheckin(h[p])) =>
                /\ \A i \in Rows : /\ i \in DOMAIN interventions'
                                   /\ interventions'[i] = interventions[i]
                /\ Len(interventions') =
                     Len(interventions)
                     + (IF h[p].pc = "insert_intervention" THEN 1 ELSE 0)]_vars

C8_Witness ==
    /\ FailCheckin(h["r1"]) /\ h["r1"].pc = "done"
    /\ h["r1"].res.status = "Pending Mentor Review"
    /\ h["r1"].before.status = "Remedial"
    /\ Len(interventions) = 2
    /\ interventions[1].status = "Assigned"
    /\ interventions[2].status = "Pending"

\* C9: a check-in classified Pass, from any status, leaves the student Normal
\* with an empty current_task and answers "On Track"; a further Pass check-in
\* leaves status and current_task unchanged.
PassCheckin(slot) ==
    /\ slot.route = "checkin" /\ ~CheckinInvalid(slot.body)
    /\ slot.body.student_id \in Roster
    /\ Passes(slot.body.quiz_score, slot.body.focus_minutes)
C9_PassCheckin ==
    \A p \in Procs :
        (PassCheckin(h[p]) /\ h[p].pc = "done") =>
            LET sid == h[p].body.student_id IN
            /\ h[p].res = ResOk("On Track")
            /\ students[sid].status = "Normal"
            /\ students[sid].current_task = Null
            /\ students[sid].name = h[p].before.name
            /\ (h[p].before.status = "Normal" /\ h[p].before.current_task = Null)
                  => students[sid] = h[p].before

C9_Witness ==
    /\ PassCheckin(h["r1"]) /\ h["r1"].pc = "done"
    /\ h["r1"].before.status = "Remedial"
    /\ h["r1"].before.current_task # Null
    /\ students[h["r1"].body.student_id].current_task = Null

\* C10: for a Fail check-in the response and the resulting records are the
\* same whether the dispatch succeeds, fails or is skipped: the dispatch
\* changes no record and the answer is the success answer in all three cases.
C10_Answered ==
    \A p \in Procs :
        (h[p].route = "checkin" /\ h[p].pc = "done" /\ h[p].dispatch # Null) =>
            /\ h[p].dispatch \in {"ok", "failed", "skipped"}
            /\ (h[p].dispatch = "skipped") <=> ~N8N_WEBHOOK_URL
            /\ h[p].res = ResOk("Pending Mentor Review")
            /\ h[p].intervention = Len(interventions)
            /\ interventions[Len(interventions)] =
                 NewIntervention(h[p].body.student_id, h[p].body.quiz_score,
                                 h[p].body.focus_minutes)
            /\ students[h[p].body.student_id] = FailureUpdate(h[p].before)
            /\ daily_logs[Len(daily_logs)] = LogRow(h[p].body, FALSE)
C10_DispatchNonFatal ==
    /\ []C10_Answered
    /\ [][\A p \in Procs :
            (h[p].pc = "webhook" /\ Acts(p)) =>
                /\ UNCHANGED store
                /\ h'[p].pc = "done"
                /\ h'[p].dispatch \in {"ok", "failed"}]_vars

C10_Witness ==
    /\ h["r1"].route = "checkin" /\ h["r1"].pc = "done"
    /\ h["r1"].dispatch = "failed"
    /\ h["r1"].res.success
    /\ interventions[Len(interventions)].status = "Pending"

\* ================================================= dispatch and the response
\* The store answers every call, so each continuation of the handler after a
\* store call is taken eventually.  The POST of line 161 is awaited with no
\* timeout: its completion is the receiver's to give, and nothing obliges the
\* receiver to answer or to fail.
StoreAnswers(p) ==
    /\ WF_vars(CheckinInsertLog(p))
    /\ WF_vars(CheckinSuccessPath(p))
    /\ WF_vars(CheckinFailureUpdate(p))
    /\ WF_vars(CheckinSelectStudent(p))
    /\ WF_vars(CheckinInsertIntervention(p))

SpecDispatch == Init /\ [][NextGate]_vars /\ StoreAnswers("r1")

\* C11: once the store writes of a Fail check-in are done, the handler
\* eventually sends its response, whatever the receiver of the webhook does.
C11_ResponseNotBlocked ==
    (h["r1"].route = "checkin" /\ h["r1"].pc = "webhook") ~> (h["r1"].pc = "done")

\* ============================================================== store errors
\* A supabase call does not throw: it resolves to { data, error }.  The call
\* the handler in slot p is awaiting fails: it writes nothing and returns an
\* error.  The handler looks at the error of two calls only (logError, line
\* 109, and intError, line 156) and throws it to its catch block; the result
\* of every other call is dropped or read for its data alone.
ThrowsOnError(pc) == pc \in {"insert_log", "insert_intervention"}

AfterIgnoredError(slot) ==
    IF slot.pc = "update_normal" THEN Reply(slot, ResOk("On Track"))
    ELSE IF slot.pc = "update_needs" THEN [slot EXCEPT !.pc = "select_student"]
    ELSE IF slot.pc = "select_student" THEN [slot EXCEPT !.pc = "insert_intervention"]
    ELSE IF slot.pc = "update_intervention" THEN [slot EXCEPT !.pc = "update_remedial"]
    ELSE IF slot.pc = "update_remedial"
         THEN Reply(slot, ResOk("Intervention assigned successfully"))
    ELSE IF slot.pc = "complete_interventions" THEN [slot EXCEPT !.pc = "complete_student"]
    ELSE Reply(slot, ResOk("Task completed"))

StoreCalls ==
    {"insert_log", "update_normal", "update_needs", "select_student",
     "insert_intervention", "update_intervention", "update_remedial",
     "complete_interventions", "complete_student"}

StoreError(p) ==
    /\ h[p].pc \in StoreCalls
    /\ h' = [h EXCEPT ![p] =
               [(IF ThrowsOnError(h[p].pc) THEN Reply(h[p], Res500)
                 ELSE AfterIgnoredError(h[p]))
                EXCEPT !.store_error = TRUE]]
    /\ UNCHANGED <<students, daily_logs, interventions, N8N_WEBHOOK_URL, now, client>>

NextStoreError == Next \/ StoreError("r1")

SpecStoreError == Init /\ [][NextStoreError]_vars

\* C12: a store error in any step of submitCheckin, assignTask or completeTask
\* aborts the rest of the operation with a failure outcome: after a failed
\* store call the handler makes no further store call and sends no success
\* response.
C12_StoreErrorAborts ==
    \A p \in Procs :
        h[p].store_error => (h[p].pc = "done" /\ ~h[p].res.success)

\* ================================================================ assignTask
AssignDone(slot) ==
    /\ slot.route = "assign" /\ slot.pc = "done"
    /\ ~AssignInvalid(slot.body)
    /\ slot.body.student_id \in DOMAIN students

\* C13: an assignTask carrying student_id and task leaves the student Remedial
\* with current_task = task and reports success, whatever the student's status
\* was and whether intervention_id is absent, names no Intervention, or names
\* an Intervention in any status.
C13_AssignSetsRemedial ==
    \A p \in Procs :
        AssignDone(h[p]) =>
            /\ h[p].res = ResOk("Intervention assigned successfully")
            /\ students[h[p].body.student_id].status = "Remedial"
            /\ students[h[p].body.student_id].current_task = h[p].body.task

\* A student who was Normal, holding no task, is assigned a task under an
\* intervention_id that names no Intervention, while Interventions exist.
C13_Witness ==
    /\ AssignDone(h["r1"])
    /\ h["r1"].before.status = "Normal"
    /\ Has(h["r1"].body, "intervention_id")
    /\ h["r1"].body.intervention_id \notin DOMAIN interventions
    /\ Len(interventions) >= 1

\* ============================================================== completeTask
\* Time passes: a later new Date() reads a later instant.
Tick ==
    /\ now < MaxClock
    /\ now' = now + 1
    /\ UNCHANGED <<students, daily_logs, interventions, N8N_WEBHOOK_URL, client, h>>

\* The caller of a successful complete-task sends the same request again as
\* soon as it has the response: the second of two calls in a row.
CompleteRepeat(p) ==
    /\ h[p].route = "complete" /\ h[p].pc = "done" /\ h[p].res.success
    /\ h' = [h EXCEPT ![p] =
               [Idle EXCEPT !.route = "complete", !.body = h[p].body,
                            !.pc = "complete_interventions", !.repeat = TRUE]]
    /\ UNCHANGED <<students, daily_logs, interventions, N8N_WEBHOOK_URL, now, client>>

\* The requests are well formed and all name one student.
NextRepeat ==
    \/ Serve("r1", FullCheckinBodies({"S001"}, Metrics),
             {b \in FullAssignBodies({"Revise chapter 2"}) : b.student_id = "S001"},
             {b \in FullCompleteBodies : b.student_id = "S001"})
    \/ CompleteRepeat("r1")
    \/ Tick

SpecRepeat == Init /\ [][NextRepeat]_vars

CompleteDone(slot) ==
    /\ slot.route = "complete" /\ slot.pc = "done"
    /\ ~CompleteInvalid(slot.body)
    /\ slot.body.student_id \in DOMAIN students

Assigned(row, student_id) == row.student_id = student_id /\ row.status = "Assigned"

NoneAssigned(student_id) ==
    \A i \in DOMAIN interventions : ~Assigned(interventions[i], student_id)

\* What completeTask does when the student has no Assigned Intervention: it
\* changes no Intervention, and it ends in success with the student Normal
\* and the task cleared.
C14_NoAssignedNoChange ==
    \A p \in Procs :
        /\ (h[p].route = "complete" /\ h[p].pc = "complete_interventions" /\ Acts(p)
            /\ NoneAssigned(h[p].body.student_id))
              => interventions' = interventions
        /\ CompleteDone(h'[p]) =>
              /\ h'[p].res = ResOk("Task completed")
              /\ students'[h'[p].body.student_id].status = "Normal"
              /\ students'[h'[p].body.student_id].current_task = Null
              /\ \A i \in DOMAIN interventions' :
                    ~Assigned(interventions'[i], h'[p].body.student_id)

\* A students row apart from its last-updated timestamp.
Untimed(row) == [row EXCEPT !.updated_at = 0]

\* C14 as stated: completeTask is idempotent.  With no Assigned Intervention
\* it changes no Intervention, reports success and still sets the student
\* Normal with no task; and the second of two calls in a row leaves the store
\* exactly as the first call left it.
C14_Idempotent ==
    [][/\ C14_NoAssignedNoChange
       /\ \A p \in Procs : (h[p].repeat /\ Acts(p)) => store' = store]_vars

\* C14 (amended): as above, but the second of two calls in a row leaves the
\* store as the first call left it apart from the student's last-updated
\* timestamp, which every call sets anew.
C14_IdempotentButTimestamp ==
    [][/\ C14_NoAssignedNoChange
       /\ \A p \in Procs :
            (h[p].repeat /\ Acts(p)) =>
                /\ interventions' = interventions
                /\ daily_logs' = daily_logs
                /\ \A s \in DOMAIN students :
                      Untimed(students'[s]) = Untimed(students[s])]_vars

\* A second complete-task in a row has been answered, at a later instant than
\* the first, for a student who has Interventions.
C14_Witness ==
    /\ CompleteDone(h["r1"]) /\ h["r1"].repeat
    /\ h["r1"].before.updated_at < now
    /\ \E i \in DOMAIN interventions :
          interventions[i].student_id = h["r1"].body.student_id

\* ========================================================= remediation cycle
\* The workflow the client and the mentor's webhook drive: a student who is
\* Normal and has no Intervention checks in; the mentor assigns a task under
\* the id of the student's Pending Intervention once the student Needs
\* Intervention; the student completes the task once Remedial.
InterventionsOf(student_id) ==
    { i \in DOMAIN interventions : interventions[i].student_id = student_id }

CycleCheckin(body) ==
    /\ students[body.student_id].status = "Normal"
    /\ InterventionsOf(body.student_id) = {}

CycleAssign(body) ==
    /\ students[body.student_id].status = "Needs Intervention"
    /\ Has(body, "intervention_id")
    /\ body.intervention_id \in InterventionsOf(body.student_id)
    /\ interventions[body.intervention_id].status = "Pending"

CycleComplete(body) == students[body.student_id].status = "Remedial"

NextCycle ==
    \/ \E body \in FullCheckinBodies(Roster, Metrics) :
          CycleCheckin(body) /\ CheckinReceive("r1", body)
    \/ CheckinInsertLog("r1")
    \/ CheckinSuccessPath("r1")
    \/ CheckinFailureUpdate("r1")
    \/ CheckinSelectStudent("r1")
    \/ CheckinInsertIntervention("r1")
    \/ \E delivered \in BOOLEAN : CheckinWebhook("r1", delivered)
    \/ \E body \in FullAssignBodies(Tasks) :
          CycleAssign(body) /\ AssignReceive("r1", body)
    \/ AssignUpdateIntervention("r1")
    \/ AssignUpdateStudent("r1")
    \/ \E body \in FullCompleteBodies :
          CycleComplete(body) /\ CompleteReceive("r1", body)
    \/ CompleteUpdateInterventions("r1")
    \/ CompleteUpdateStudent("r1")
    \/ Finish("r1")

SpecCycle == Init /\ [][NextCycle]_vars

\* The student of the request in the slot, and the Interventions' statuses.
CycleStudent(slot) == students[slot.body.student_id]
CycleStatuses(slot) ==
    { interventions[i].status : i \in InterventionsOf(slot.body.student_id) }

\* C15: from a Normal student with no Interventions, a Fail check-in leaves
\* the student Needs Intervention with one Pending Intervention; assignTask
\* under that Intervention's id leaves the student Remedial with the assigned
\* task and the Intervention Assigned; completeTask leaves the student Normal
\* with no task and the Intervention Completed, none of the student's open.
C15_RemediationCycle ==
    \A p \in Procs :
        /\ (FailCheckin(h[p]) /\ h[p].pc = "done") =>
              /\ CycleStudent(h[p]).status = "Needs Intervention"
              /\ Cardinality(InterventionsOf(h[p].body.student_id)) = 1
              /\ CycleStatuses(h[p]) = {"Pending"}
        /\ AssignDone(h[p]) =>
              /\ CycleStudent(h[p]).status = "Remedial"
              /\ CycleStudent(h[p]).current_task = h[p].body.task
              /\ InterventionsOf(h[p].body.student_id) = {h[p].body.intervention_id}
              /\ CycleStatuses(h[p]) = {"Assigned"}
              /\ interventions[h[p].body.intervention_id].assigned_task = h[p].body.task
        /\ CompleteDone(h[p]) =>
              /\ CycleStudent(h[p]).status = "Normal"
              /\ CycleStudent(h[p]).current_task = Null
              /\ Cardinality(InterventionsOf(h[p].body.student_id)) = 1
              /\ CycleStatuses(h[p]) = {"Completed"}
              /\ OpenOf(h[p].body.student_id) = {}

\* The cycle has run to its end: completeTask is answered for a student who was
\* Remedial and whose Intervention is now Completed.
C15_Witness ==
    /\ CompleteDone(h["r1"])
    /\ h["r1"].before.status = "Remedial"
    /\ CycleStatuses(h["r1"]) = {"Completed"}

\* ================================================================ student status
\* GET /api/student/:studentId.  The slot keeps the path parameter in its body.
StatusReceive(p, studentId) ==
    /\ Free(p)
    /\ h' = [h EXCEPT ![p] =
               [Idle EXCEPT !.route = "status", !.body = [student_id |-> studentId],
                            !.pc = "status_student"]]
    /\ UNCHANGED <<students, daily_logs, interventions, N8N_WEBHOOK_URL, now, client>>

\* .from('students').select('*').eq('student_id', studentId).single();
\* if (error) throw error: no row is an error of .single().
StatusSelectStudent(p) ==
    /\ h[p].route = "status" /\ h[p].pc = "status_student"
    /\ h' = [h EXCEPT ![p] =
               IF h[p].body.student_id \in DOMAIN students
               THEN [h[p] EXCEPT !.data = students[h[p].body.student_id],
                                 !.pc = "status_intervention"]
               ELSE Reply(h[p], Res500)]
    /\ UNCHANGED <<students, daily_logs, interventions, N8N_WEBHOOK_URL, now, client>>

\* Variant: the first Pending Intervention of the student, not the last.
OldestPending(student_id) ==
    LET found == { i \in DOMAIN interventions :
                     /\ interventions[i].student_id = student_id
                     /\ interventions[i].status = "Pending" }
    IN  IF found = {} THEN 0 ELSE CHOOSE i \in found : \A j \in found : i <= j

\* .eq('student_id', studentId).eq('status', 'Pending')
\* .order('created_at', { ascending: false }).limit(1).single(): the id of the
\* row read, 0 for the null the handler answers when there is none.  Rows are
\* created in the order of their ids.
MostRecentPending(student_id) ==
    LET found == { i \in DOMAIN interventions :
                     /\ interventions[i].student_id = student_id
                     /\ interventions[i].status = "Pending" }
    IN  IF found = {} THEN 0 ELSE CHOOSE i \in found : \A j \in found : i >= j

\* res.json({ success: true, student: data, intervention: intervention || null })
StatusSelectIntervention(p) ==
    /\ h[p].route = "status" /\ h[p].pc = "status_intervention"
    /\ h' = [h EXCEPT ![p] =
               [Reply(h[p], ResOk(Null)) EXCEPT
                   !.intervention = MostRecentPending(h[p].body.student_id)]]
    /\ UNCHANGED <<students, daily_logs, interventions, N8N_WEBHOOK_URL, now, client>>

\* The four routes, one request at a time; the check-ins may name a student
\* who is on no roster.
NextStatus ==
    \/ Serve("r1", FullCheckinBodies(StudentIds, Metrics),
             FullAssignBodies({"Revise chapter 2"}), FullCompleteBodies)
    \/ \E studentId \in StudentIds : StatusReceive("r1", studentId)
    \/ StatusSelectStudent("r1")
    \/ StatusSelectIntervention("r1")

SpecStatus == Init /\ [][NextStatus]_vars

StatusDone(slot) ==
    /\ slot.route = "status" /\ slot.pc = "done"
    /\ slot.body.student_id \in DOMAIN students

\* C16: getStatus answers with the student's record and with the most recently
\* created Pending Intervention of that student, or null when the student has
\* none (never an Assigned or Completed one, never another student's), and no
\* step of it changes the store.
C16_GetStatus ==
    [][\A p \in Procs :
         /\ (Acts(p) /\ ActingRoute(p) = "status") => store' = store
         /\ StatusDone(h'[p]) =>
              LET s == h'[p].body.student_id
                  got == h'[p].intervention
                  pending == { i \in DOMAIN interventions' :
                                 /\ interventions'[i].student_id = s
                                 /\ interventions'[i].status = "Pending" }
              IN  /\ h'[p].res.success
                  /\ h'[p].data = students'[s]
                  /\ (pending = {}) => got = 0
                  /\ (pending # {}) => (got \in pending /\ \A i \in pending : i <= got)]_vars

\* A status request is answered with the later of the two Pending
\* Interventions of a student who Needs Intervention.
C16_Witness ==
    /\ StatusDone(h["r1"])
    /\ h["r1"].intervention = 2
    /\ Len(interventions) = 2
    /\ \A i \in DOMAIN interventions :
          /\ interventions[i].student_id = h["r1"].body.student_id
          /\ interventions[i].status = "Pending"
    /\ h["r1"].data.status = "Needs Intervention"

\* ================================================================== DailyLog
\* The entry a check-in of this body is to leave in the log.
LogEntry(body) ==
    [student_id |-> body.student_id, quiz_score |-> body.quiz_score,
     focus_minutes |-> body.focus_minutes,
     status |-> IF Passes(body.quiz_score, body.focus_minutes)
                THEN "On Track" ELSE "Needs Intervention"]

\* The step that follows the validation of a check-in.
Validated(p) == h[p].route = "checkin" /\ h[p].pc = "insert_log" /\ Acts(p)

\* The existing entries stay as they are, in place.
LogKept ==
    /\ Len(daily_logs') >= Len(daily_logs)
    /\ SubSeq(daily_logs', 1, Len(daily_logs)) = daily_logs

\* C17 as stated: every check-in that passes validation appends exactly one
\* entry, labelled "On Track" on Pass and "Needs Intervention" on Fail; no
\* other step of any of the four operations appends, changes or removes one.
C17_AppendOnly ==
    [][/\ LogKept
       /\ \A p \in Procs :
            IF Validated(p)
            THEN daily_logs' = Append(daily_logs, LogEntry(h[p].body))
            ELSE Acts(p) => daily_logs' = daily_logs]_vars

\* C17 (amended): as above for the check-ins whose student_id names a row of
\* students; a validated check-in of any other student_id appends nothing.
C17_AppendOnlyKnownStudent ==
    [][/\ LogKept
       /\ \A p \in Procs :
            IF Validated(p) /\ h[p].body.student_id \in DOMAIN students
            THEN daily_logs' = Append(daily_logs, LogEntry(h[p].body))
            ELSE Acts(p) => daily_logs' = daily_logs]_vars

\* A status request is answered after a Pass and a Fail check-in were logged.
C17_Witness ==
    /\ h["r1"].route = "status" /\ h["r1"].pc = "done"
    /\ Len(daily_logs) = 2
    /\ { daily_logs[i].status : i \in DOMAIN daily_logs } =
          {"On Track", "Needs Intervention"}

\* ==================================================================== client
\* The dependencies of the polling effect.
PollingDeps(c) == <<c.selectedStudent, c.studentData.status>>

\* fetchStudentStatus of the render in which student_id is selected: the
\* request leaves.  What follows its await is FetchDelivered or FetchFailed.
fetchStudentStatus(c, student_id) ==
    [c EXCEPT !.fetches = @ (+) SetToBag({[student_id |-> student_id, status |-> Null]})]

\* if (pollingRef.current) clearInterval(pollingRef.current)
clearPolling(c) == [c EXCEPT !.pollingRef.live = FALSE]

\* pollingRef.current = setInterval(fetchStudentStatus, 5000)
setPolling(c) ==
    [c EXCEPT !.leaked = @ \/ c.pollingRef.live,
              !.pollingRef = [student |-> c.selectedStudent, live |-> TRUE]]

\* Variant: the effect starts the interval whenever a student is selected.
PollingEffectAlways(c) ==
    IF c.selectedStudent = Null THEN c
    ELSE setPolling(fetchStudentStatus(c, c.selectedStudent))

\* The body of the polling effect.
PollingEffect(c) ==
    IF c.selectedStudent = Null THEN c
    ELSE IF c.studentData.status = "Needs Intervention"
         THEN setPolling(fetchStudentStatus(c, c.selectedStudent))
         ELSE clearPolling(fetchStudentStatus(c, c.selectedStudent))

\* The component renders with its new state; when a dependency of the polling
\* effect changed, the effect's cleanup runs and then the effect.
Render(old, new) ==
    IF PollingDeps(old) = PollingDeps(new) THEN new
    ELSE PollingEffect(clearPolling(new))

Room == BagCardinality(client.fetches) < MaxInFlight

\* onPress={() => setSelectedStudent(student.student_id)}, on the selector
\* screen, which shows while no student is selected.
SelectStudent(student_id) ==
    /\ client.selectedStudent = Null
    /\ Room
    /\ client' = Render(client, [client EXCEPT !.selectedStudent = student_id])
    /\ UNCHANGED <<students, daily_logs, interventions, N8N_WEBHOOK_URL, now, h>>

\* The back button: setSelectedStudent(null); setStudentData(null).
ChangeStudent ==
    /\ client.selectedStudent # Null
    /\ client' = Render(client, [client EXCEPT !.selectedStudent = Null,
                                               !.studentData = NoData])
    /\ UNCHANGED <<students, daily_logs, interventions, N8N_WEBHOOK_URL, now, h>>

\* The interval fires: fetchStudentStatus of the render that set it.
PollingFire ==
    /\ client.pollingRef.live
    /\ Room
    /\ client' = fetchStudentStatus(client, client.pollingRef.student)
    /\ UNCHANGED <<students, daily_logs, interventions, N8N_WEBHOOK_URL, now, h>>

InFlight == BagToSet(client.fetches)

\* The server reads the students row for a status request.
FetchServed(f) ==
    /\ f \in InFlight /\ f.status = Null
    /\ client' = [client EXCEPT !.fetches =
                    (@ (-) SetToBag({f}))
                    (+) SetToBag({[f EXCEPT !.status = students[f.student_id].status]})]
    /\ UNCHANGED <<students, daily_logs, interventions, N8N_WEBHOOK_URL, now, h>>

\* const data = await response.json(); if (data.success) setStudentData(data)
FetchDelivered(f) ==
    /\ f \in InFlight /\ f.status # Null
    /\ client' = Render(client,
                        [client EXCEPT !.fetches = @ (-) SetToBag({f}),
                                       !.studentData = f])
    /\ UNCHANGED <<students, daily_logs, interventions, N8N_WEBHOOK_URL, now, h>>

\* The request fails, or its response has success false: nothing is set.
FetchFailed(f) ==
    /\ f \in InFlight
    /\ client' = [client EXCEPT !.fetches = @ (-) SetToBag({f})]
    /\ UNCHANGED <<students, daily_logs, interventions, N8N_WEBHOOK_URL, now, h>>

\* The status requests that can be in flight.
Fetches ==
    [student_id : Roster,
     status : {Null, "Normal", "Needs Intervention", "Remedial"}]

\* One step of the client, whose user selects among the given students.
ClientStep(ids) ==
    \/ \E student_id \in ids : SelectStudent(student_id)
    \/ ChangeStudent
    \/ PollingFire
    \/ \E f \in Fetches : FetchServed(f)
    \/ \E f \in Fetches : FetchDelivered(f)

\* The requests that move one student through the workflow, one at a time.
WorkflowStep ==
    \/ \E body \in FullCheckinBodies({"S001"}, {<<0, 0>>}) : CheckinReceive("r1", body)
    \/ CheckinInsertLog("r1")
    \/ CheckinFailureUpdate("r1")
    \/ CheckinSelectStudent("r1")
    \/ CheckinInsertIntervention("r1")
    \/ \E delivered \in BOOLEAN : CheckinWebhook("r1", delivered)
    \/ \E body \in FullAssignBodies({"Revise chapter 2"}) :
          /\ body.student_id = "S001" /\ ~Has(body, "intervention_id")
          /\ AssignReceive("r1", body)
    \/ AssignUpdateStudent("r1")
    \/ \E body \in FullCompleteBodies :
          body.student_id = "S001" /\ CompleteReceive("r1", body)
    \/ CompleteUpdateInterventions("r1")
    \/ CompleteUpdateStudent("r1")
    \/ Finish("r1")

NextClient ==
    \/ WorkflowStep
    \/ ClientStep(Roster)
    \/ \E f \in Fetches : FetchFailed(f)

SpecClient == Init /\ [][NextClient]_vars

\* The status the client last observed for the student it has selected.
ObservedOfSelected ==
    IF client.studentData.student_id = client.selectedStudent
    THEN client.studentData.status ELSE Null

\* C18: the client has a polling interval set only while a student is selected
\* and the status it last observed for that student is Needs Intervention.
C18_PollingOnlyWhileNeedsIntervention ==
    /\ ~client.leaked
    /\ client.pollingRef.live =>
          /\ client.selectedStudent # Null
          /\ client.pollingRef.student = client.selectedStudent
          /\ ObservedOfSelected = "Needs Intervention"

\* ============================================================== convergence
\* The user watches the student the requests are about.  The interval fires
\* every 5 s while it is set; the server answers every status request; every
\* response reaches fetchStudentStatus.
NextObserver == WorkflowStep \/ ClientStep({"S001"})

FairObserver ==
    /\ WF_vars(PollingFire)
    /\ WF_vars(\E f \in Fetches : FetchServed(f))
    /\ WF_vars(\E f \in Fetches : FetchDelivered(f))

SpecObserver == Init /\ [][NextObserver]_vars /\ FairObserver

\* The client polls student s, whose status on the server is status.
PollingWhile(s, status) ==
    /\ client.selectedStudent = s
    /\ client.pollingRef.live
    /\ students[s].status = status

\* The client holds the status of s and has no interval set.
ObservedAndStopped(s, status) ==
    /\ client.studentData = [student_id |-> s, status |-> status]
    /\ ~client.pollingRef.live

\* C19: if the client polls a student whose status on the server has left
\* Needs Intervention and stays as it is, then, the student staying selected,
\* the client eventually holds that status and has stopped polling.
C19_Convergence ==
    \A s \in {"S001"} : \A status \in {"Normal", "Remedial"} :
        PollingWhile(s, status)
            ~> \/ ObservedAndStopped(s, status)
               \/ students[s].status # status
               \/ client.selectedStudent # s

\* The client set an interval for S001, saw the task assigned, and stopped.
C19_Witness ==
    /\ ObservedAndStopped("S001", "Remedial")
    /\ client.pollingRef.student = "S001"
    /\ client.selectedStudent = "S001"
    /\ students["S001"].status = "Remedial"

\* ================================================================== dispatch
\* The handler in slot p starts the POST to the webhook in this step.
Dispatches(p) == h[p].pc # "webhook" /\ h'[p].pc = "webhook"

\* The POST of slot p is over in this step.
Dispatched(p) == h[p].pc = "webhook" /\ Acts(p)

\* C20: a check-in starts at most one dispatch and never repeats it; the
\* dispatch is started only by a Fail check-in, in the step that creates its
\* Pending Intervention, and carries the id of that Intervention; a Pass
\* check-in creates no Intervention and starts no dispatch.
C20_DispatchOnce ==
    [][\A p \in Procs :
         /\ Dispatches(p) =>
              /\ FailCheckin(h[p]) /\ h[p].pc = "insert_intervention"
              /\ h[p].dispatch = Null
              /\ Len(interventions') = Len(interventions) + 1
              /\ h'[p].intervention = Len(interventions')
              /\ interventions'[h'[p].intervention].student_id = h[p].body.student_id
              /\ interventions'[h'[p].intervention].status = "Pending"
         /\ Dispatched(p) =>
              /\ h'[p].pc = "done"
              /\ h'[p].dispatch \in {"ok", "failed"}
              /\ h'[p].intervention = h[p].intervention
         /\ (h'[p].dispatch \in {"ok", "failed"} /\ h[p].pc # "idle")
              => (Dispatched(p) \/ h[p].dispatch = h'[p].dispatch)
         /\ (Acts(p) /\ h[p].pc # "idle" /\ PassCheckin(h[p])) =>
              /\ interventions' = interventions
              /\ ~Dispatches(p)
              /\ h'[p].dispatch = Null]_vars

\* The second Fail check-in has been answered after its dispatch, which
\* carried the id of the second Intervention.
C20_Witness ==
    /\ FailCheckin(h["r1"]) /\ h["r1"].pc = "done"
    /\ h["r1"].dispatch \in {"ok", "failed"}
    /\ h["r1"].intervention = 2
    /\ Len(interventions) = 2

\* ======================================================= episode consistency
\* C21: once every operation has completed, a student who has an Assigned
\* Intervention is Remedial and holds that Intervention's assigned task.
C21_EpisodeConsistent ==
    Quiet =>
        \A i \in DOMAIN interventions :
            (interventions[i].status = "Assigned"
             /\ interventions[i].student_id \in DOMAIN students) =>
                /\ students[interventions[i].student_id].status = "Remedial"
                /\ students[interventions[i].student_id].current_task
                     = interventions[i].assigned_task

\* =================================================== pending while locked out
\* C22: once every operation has completed, every student who Needs
\* Intervention has a Pending Intervention, and a status request answered for
\* such a student carries a pending Intervention, not null.
C22_NeedsInterventionHasPending ==
    Quiet =>
        /\ \A s \in DOMAIN students :
              students[s].status = "Needs Intervention" =>
                  \E i \in DOMAIN interventions :
                      /\ interventions[i].student_id = s
                      /\ interventions[i].status = "Pending"
        /\ \A p \in Procs :
              (StatusDone(h[p]) /\ h[p].data.status = "Needs Intervention")
                  => h[p].intervention # 0

\* ====================================================== assign against complete
\* An assign-intervention and a complete-task for the same student arrive
\* together, on an idle server: each takes a slot, and their store calls
\* interleave from there.
RaceReceive(assign, complete) ==
    /\ \A p \in Procs : h[p].pc = "idle"
    /\ assign.student_id = complete.student_id
    /\ LET start == [students |-> students, interventions |-> interventions] IN
       h' = [h EXCEPT
               !["r1"] = [Idle EXCEPT !.route = "assign", !.body = assign,
                                      !.pc = IF Has(assign, "intervention_id")
                                             THEN "update_intervention"
                                             ELSE "update_remedial",
                                      !.raced = TRUE, !.start = start],
               !["r2"] = [Idle EXCEPT !.route = "complete", !.body = complete,
                                      !.pc = "complete_interventions",
                                      !.raced = TRUE, !.start = start]]
    /\ UNCHANGED <<students, daily_logs, interventions, N8N_WEBHOOK_URL, now, client>>

\* The requests are well formed and all name one student.
RaceAssignBodies ==
    {b \in FullAssignBodies({"Revise chapter 2"}) : b.student_id = "S001"}
RaceCompleteBodies == {b \in FullCompleteBodies : b.student_id = "S001"}

NextRace ==
    \/ Serve("r1", FullCheckinBodies({"S001"}, Metrics), RaceAssignBodies,
             RaceCompleteBodies)
    \/ \E assign \in RaceAssignBodies : \E complete \in RaceCompleteBodies :
          RaceReceive(assign, complete)
    \/ CompleteUpdateInterventions("r2")
    \/ CompleteUpdateStudent("r2")
    \/ Finish("r2")

SpecRace == Init /\ [][NextRace]_vars

\* The two tables after assign-intervention has run alone from the tables t.
AssignAlone(t, body) ==
    [students |->
        [s \in DOMAIN t.students |->
            IF s = body.student_id
            THEN [t.students[s] EXCEPT !.status = "Remedial",
                                       !.current_task = body.task,
                                       !.updated_at = now]
            ELSE t.students[s]],
     interventions |->
        [i \in DOMAIN t.interventions |->
            IF Has(body, "intervention_id") /\ i = body.intervention_id
            THEN [t.interventions[i] EXCEPT !.assigned_task = body.task,
                                            !.assigned_by = "Mentor",
                                            !.assigned_at = "set",
                                            !.status = "Assigned"]
            ELSE t.interventions[i]]]

\* The two tables after complete-task has run alone from the tables t.
CompleteAlone(t, body) ==
    [students |->
        [s \in DOMAIN t.students |->
            IF s = body.student_id
            THEN [t.students[s] EXCEPT !.status = "Normal", !.current_task = Null,
                                       !.updated_at = now]
            ELSE t.students[s]],
     interventions |->
        [i \in DOMAIN t.interventions |->
            IF Assigned(t.interventions[i], body.student_id)
            THEN [t.interventions[i] EXCEPT !.completed_at = "set",
                                            !.status = "Completed"]
            ELSE t.interventions[i]]]

\* Both requests that arrived together have been answered.
RaceOver ==
    \A p \in Procs : h[p].raced /\ h[p].pc = "done"

\* C23: when an assignTask and a completeTask for the same student have run
\* concurrently, the students and interventions tables are what one of the
\* two serial orders of the two operations leaves.
C23_Serializable ==
    RaceOver =>
        LET start == h["r1"].start
            assign == h["r1"].body
            complete == h["r2"].body
        IN  [students |-> students, interventions |-> interventions]
              \in { CompleteAlone(AssignAlone(start, assign), complete),
                    AssignAlone(CompleteAlone(start, complete), assign) }

====
